---- MODULE Spec2Model ----
(***************************************************************************)
(* Model of cod_etl_pipeline.py: the incremental store-level ETL run       *)
(* (processed-set tracking, file discovery, validation, harmonization,     *)
(* archival, report, SQLite reload) over the four working directories and  *)
(* the store_offtake table.  File names are sequences of characters so     *)
(* that glob matching, str.replace, str.split and slicing are computed as  *)
(* the script computes them.                                               *)
(***************************************************************************)
EXTENDS Integers, Sequences, FiniteSets, Bags, TLC

VARIABLES
    input,              \* INPUT_DIR: base filename -> file content
    archive,            \* ARCHIVE_DIR: base filename -> file content
    output,             \* OUTPUT_DIR: artifact filename -> written frame
    reports,            \* REPORT_DIR: report timestamp -> report rows
    table,              \* store_offtake in DB_PATH: [exists, rows]
    now,                \* datetime.now() of the current run
    pc,                 \* position of the script
    exit,               \* how the last run ended
    processed_files,    \* dict filename -> md5 of the archived file
    new_files,          \* list of discovered paths
    i,                  \* index of file_path in new_files (1-based)
    validation_report,  \* list of validation outcomes of this run
    pending,            \* CDM files the load loop has still to read
    delivered,          \* files put into INPUT_DIR so far
    snap,               \* archive and table at the end of the last completed
                        \* run, while nothing was delivered since
    torn,               \* "torn": a load was interrupted after the drop;
                        \* "healed": a later load has completed since
    failed,             \* the files the latest run has found FAILED
    retry,              \* the files that FAILED in the run before and were
                        \* replaced in place by a file with all required
                        \* columns before this run
    rewritten           \* the CDM files this run has written over an
                        \* existing file

vars == <<input, archive, output, reports, table, now, pc, exit,
          processed_files, new_files, i, validation_report, pending,
          delivered, snap, torn, failed, retry, rewritten>>

-----------------------------------------------------------------------------
(* Bounds of the model *)

MaxRuns == 2
MaxDeliveries == 2
MaxTokens == 4

-----------------------------------------------------------------------------
(* String helpers, computed as Python computes them *)

Min(a, b) == IF a < b THEN a ELSE b

\* fnmatch of one path component: '*' any run of characters, '?' any one
RECURSIVE FnMatch(_, _)
FnMatch(pat, s) ==
    IF pat = <<>> THEN s = <<>>
    ELSE IF Head(pat) = "*"
         THEN FnMatch(Tail(pat), s) \/ (s # <<>> /\ FnMatch(pat, Tail(s)))
         ELSE /\ s # <<>>
              /\ (Head(pat) = "?" \/ Head(pat) = Head(s))
              /\ FnMatch(Tail(pat), Tail(s))

\* glob.glob: fnmatch, and a leading '.' is matched only by a literal '.'
GlobMatch(pat, s) ==
    /\ FnMatch(pat, s)
    /\ (s # <<>> /\ Head(s) = ".") => (pat # <<>> /\ Head(pat) = ".")

StartsWith(s, pre) ==
    /\ Len(s) >= Len(pre)
    /\ SubSeq(s, 1, Len(pre)) = pre

\* str.replace(old, ''): every non-overlapping occurrence, left to right
RECURSIVE Remove(_, _)
Remove(s, old) ==
    IF s = <<>> THEN <<>>
    ELSE IF StartsWith(s, old)
         THEN Remove(SubSeq(s, Len(old) + 1, Len(s)), old)
         ELSE <<Head(s)>> \o Remove(Tail(s), old)

\* str.split(sep) for a one-character separator
RECURSIVE Split(_, _)
Split(s, sep) ==
    IF s = <<>> THEN << <<>> >>
    ELSE LET rest == Split(Tail(s), sep)
         IN  IF Head(s) = sep
             THEN << <<>> >> \o rest
             ELSE << <<Head(s)>> \o Head(rest) >> \o Tail(rest)

\* s[a:b] with 0-based Python bounds, clipped to the string
Slice(s, a, b) == SubSeq(s, a + 1, Min(b, Len(s)))

DotCsv == <<".", "c", "s", "v">>

-----------------------------------------------------------------------------
(* Configuration (=== CONFIG ===) and the file names of the model *)

\* a glob that asks for no underscore: every .csv file
PatternAnyCsv == <<"*">> \o DotCsv

\* the glob of line 35, without the directory
pattern ==
    <<"*", "_", "?", "?", "?", "?", "?", "?", "_",
      "?", "?", "?", "?", "?", "?", "_", "*">> \o DotCsv

\* the glob of line 30, without the directory
ArchiveGlob == <<"*">> \o DotCsv

\* the glob of line 121, without the directory
CdmGlob == <<"C", "D", "M", "_", "*">> \o DotCsv

\* ATSOF_202401_202402_x.csv
NamePlain ==
    <<"A", "T", "S", "O", "F", "_", "2", "0", "2", "4", "0", "1", "_",
      "2", "0", "2", "4", "0", "2", "_", "x">> \o DotCsv

\* ATSOF_202401_202402_x.csv.csv
NameTwice == NamePlain \o DotCsv

\* DE_REW_202403_202404_y.csv
NamePrefixed ==
    <<"D", "E", "_", "R", "E", "W", "_", "2", "0", "2", "4", "0", "3", "_",
      "2", "0", "2", "4", "0", "4", "_", "y">> \o DotCsv

\* ATSOF_2024.csv
NameShort == <<"A", "T", "S", "O", "F", "_", "2", "0", "2", "4">> \o DotCsv

FileNames == {NamePlain, NameTwice, NamePrefixed, NameShort}

-----------------------------------------------------------------------------
(* File contents: a CSV file as pandas reads it *)

\* line 56
required == <<"Store_ID", "Store_Name", "City", "Volume", "Value">>

\* the columns of CREATE TABLE store_offtake, lines 101-117
Schema ==
    {"Store_ID", "Store_Name", "City", "Volume", "Value", "Banner", "Street",
     "Post_Code", "Key_Account", "Country", "Source", "Unique_Store_ID",
     "Load_Timestamp", "Period_Start", "Period_End"}

Range(s) == {s[k] : k \in DOMAIN s}

\* a readable CSV with header `columns` and the data rows `rows`
Csv(columns, rows) == [parsable |-> TRUE, columns |-> columns, rows |-> rows]

\* all required columns and Banner, one row
WithBanner ==
    Csv(Range(required) \cup {"Banner"},
        << [Store_ID |-> 123, Store_Name |-> "Markt", City |-> "Wien",
            Volume |-> 10, Value |-> 25, Banner |-> "BigMart"] >>)

\* all required columns, no Banner, two rows
NoBanner ==
    Csv(Range(required),
        << [Store_ID |-> 7, Store_Name |-> "Laden", City |-> "Graz",
            Volume |-> 3, Value |-> 9],
           [Store_ID |-> 8, Store_Name |-> "Kiosk", City |-> "Linz",
            Volume |-> 4, Value |-> 12] >>)

\* City is missing
NoCity ==
    Csv((Range(required) \ {"City"}) \cup {"Banner"},
        << [Store_ID |-> 5, Store_Name |-> "Shop", Volume |-> 1,
            Value |-> 2, Banner |-> "Mini"] >>)

\* all required columns and a column store_offtake does not have
ExtraColumn ==
    Csv(Range(required) \cup {"Region"},
        << [Store_ID |-> 9, Store_Name |-> "Halle", City |-> "Bonn",
            Volume |-> 6, Value |-> 7, Region |-> "West"] >>)

\* a zero-byte file: pd.read_csv raises EmptyDataError
Unparsable == [parsable |-> FALSE, columns |-> {}, rows |-> <<>>]

Contents == {WithBanner, NoBanner, NoCity, ExtraColumn, Unparsable}

\* get_file_hash, lines 25-27: a digest of the content
RECURSIVE SumIds(_)
SumIds(rows) == IF rows = <<>> THEN 0 ELSE Head(rows).Store_ID + SumIds(Tail(rows))

get_file_hash(content) ==
    (31 * Cardinality(content.columns) + 7 * Len(content.rows)
        + SumIds(content.rows)) % 256

NoFiles == <<>>

Put(dir, name, content) == (name :> content) @@ dir

Without(dir, name) == [n \in DOMAIN dir \ {name} |-> dir[n]]

-----------------------------------------------------------------------------
(* The steps of the per-file loop, as functions *)

\* line 53
Stem(basename) == Remove(basename, DotCsv)

\* Stem, split and the globs over the file names of the model, computed once
StemOf == [f \in FileNames |-> Stem(f)]

\* line 69
PartsOf == [f \in FileNames |-> Split(StemOf[f], "_")]

\* the names the glob of line 35 matches
Matching == {f \in FileNames : GlobMatch(pattern, f)}

\* the names the glob of line 30 matches
ArchiveMatching == {f \in FileNames : GlobMatch(ArchiveGlob, f)}

\* line 57: the required columns the frame lacks, in the order of `required`
Missing(columns) == SelectSeq(required, LAMBDA c : c \notin columns)

\* ', '.join(missing)
RECURSIVE JoinComma(_)
JoinComma(cols) ==
    IF cols = <<>> THEN ""
    ELSE IF Len(cols) = 1 THEN Head(cols)
         ELSE Head(cols) \o ", " \o JoinComma(Tail(cols))

\* lines 58-63
Outcome(stem, content) ==
    LET missing == Missing(content.columns)
    IN  [File |-> stem,
         Rows |-> Len(content.rows),
         Missing_Cols |-> IF missing # <<>> THEN JoinComma(missing) ELSE "None",
         Status |-> IF missing # <<>> THEN "FAILED" ELSE "PASSED"]

\* skipping by content instead: the name is known and the digest is the same
AlreadyProcessedSameContent(filename, processed) ==
    /\ filename \in DOMAIN processed
    /\ processed[filename] = get_file_hash(input[filename])

\* no skipping at all: every matching file of the input location is selected
NeverProcessed(filename, processed) == FALSE

\* line 39
AlreadyProcessed(filename, processed) == filename \in DOMAIN processed

\* lines 37-42: the paths File Discovery keeps
Candidates(dir, processed) ==
    {n \in DOMAIN dir \cap Matching : ~AlreadyProcessed(n, processed)}

\* glob.glob returns the directory's entries in no particular order
Orderings(S) ==
    {s \in [1..Cardinality(S) -> S] : \A a, b \in DOMAIN s : a # b => s[a] # s[b]}

\* line 74, one row
UniqueStoreId(row, columns) ==
    ToString(row.Store_ID) \o "_"
        \o (IF "Banner" \in columns THEN row.Banner ELSE "N/A")

\* lines 69-77, one row: the derived columns overwrite same-named ones
HarmonizedRow(row, columns, parts, stamp) ==
    [Country |-> Slice(parts[1], 0, 2),
     Source |-> Slice(parts[1], 2, 5),
     Unique_Store_ID |-> UniqueStoreId(row, columns),
     Load_Timestamp |-> stamp,
     Period_Start |-> parts[2],
     Period_End |-> parts[3]] @@ row

Derived ==
    {"Country", "Source", "Unique_Store_ID", "Load_Timestamp",
     "Period_Start", "Period_End"}

\* lines 69-77: the frame written to the CDM file
Harmonized(content, parts, stamp) ==
    [columns |-> content.columns \cup Derived,
     rows |-> [k \in DOMAIN content.rows |->
                  HarmonizedRow(content.rows[k], content.columns, parts, stamp)]]

\* line 80
CdmName(stem) == <<"C", "D", "M", "_">> \o stem \o DotCsv

CdmNameOf == [f \in FileNames |-> CdmName(StemOf[f])]

\* the names of OUTPUT_DIR the glob of line 121 matches
CdmMatching == {n \in Range(CdmNameOf) : GlobMatch(CdmGlob, n)}

\* the row stamped when it is loaded instead of when it was harmonized
TableRowStampedAtLoad(row) ==
    [c \in Schema |-> IF c = "Load_Timestamp" THEN now
                      ELSE IF c \in DOMAIN row THEN row[c] ELSE "NULL"]

\* line 123: a row as store_offtake holds it, absent columns NULL
TableRow(row) == [c \in Schema |-> IF c \in DOMAIN row THEN row[c] ELSE "NULL"]

RECURSIVE RowsToBag(_)
RowsToBag(rows) ==
    IF rows = <<>> THEN EmptyBag
    ELSE SetToBag({TableRow(Head(rows))}) (+) RowsToBag(Tail(rows))

\* line 123: to_sql(if_exists='append') fails on a column the table lacks
Insertable(frame) == frame.columns \subseteq Schema

NoTable == [exists |-> FALSE, rows |-> EmptyBag]

\* to_sql(if_exists='replace') instead: the frame replaces the table's rows
AppendedReplacing(t, frame) == [t EXCEPT !.rows = RowsToBag(frame.rows)]

\* line 123: to_sql(if_exists='append')
Appended(t, frame) == [t EXCEPT !.rows = @ (+) RowsToBag(frame.rows)]

\* only the CDM files this run has written
CdmFilesOfThisRun(dir) ==
    {f \in DOMAIN dir : /\ f \in CdmMatching
                        /\ \A k \in DOMAIN dir[f].rows :
                              dir[f].rows[k].Load_Timestamp = now}

\* line 121
CdmFiles(dir) == DOMAIN dir \cap CdmMatching

\* to_csv(mode='a') instead: the rows are added to those of an existing file
SavedAppending(dir, name, frame) ==
    IF name \in DOMAIN dir
    THEN Put(dir, name, [columns |-> dir[name].columns \cup frame.columns,
                         rows |-> dir[name].rows \o frame.rows])
    ELSE Put(dir, name, frame)

\* the write skipped
NotSaved(dir, name, frame) == dir

\* line 81: to_csv creates or overwrites the file
Saved(dir, name, frame) == Put(dir, name, frame)

\* the file copied instead of moved
NotRemoved(dir, name) == dir

\* line 85, the source side of os.replace
Removed(dir, name) == Without(dir, name)

\* the test of line 44 never taken
NeverEmpty(files) == FALSE

\* line 44
NothingNew(files) == files = <<>>

NoSnap == [valid |-> FALSE, runs |-> 0, archive |-> NoFiles, table |-> NoTable]

-----------------------------------------------------------------------------
(* The state machine *)

Init ==
    /\ input = NoFiles
    /\ archive = NoFiles
    /\ output = NoFiles
    /\ reports = NoFiles
    /\ table = NoTable
    /\ now = 0
    /\ pc = "idle"
    /\ exit = "none"
    /\ processed_files = NoFiles
    /\ new_files = <<>>
    /\ i = 0
    /\ validation_report = <<>>
    /\ pending = {}
    /\ delivered = 0
    /\ snap = NoSnap
    /\ torn = "no"
    /\ failed = {}
    /\ retry = {}
    /\ rewritten = {}

Running == exit = "running"

disk == <<input, archive, output, reports, table>>

locals == <<processed_files, new_files, i, validation_report, pending>>

\* what is remembered of the validation outcomes and of the writes across
\* runs
history == <<failed, retry, rewritten>>

\* the interpreter's memory is gone once the script has ended normally; of a
\* run that died, pc and the variables stay as they were at its death
Forget ==
    /\ pc' = "idle"
    /\ processed_files' = NoFiles
    /\ new_files' = <<>>
    /\ i' = 0
    /\ validation_report' = <<>>
    /\ pending' = {}

\* an unhandled exception ends the script where it stands
Raise ==
    /\ exit' = "error"
    /\ snap' = NoSnap
    /\ UNCHANGED <<pc, locals>>

\* the table is dropped, or recreated and not yet holding every CDM file
MidLoad == pc = "create" \/ (pc = "load" /\ pending # {})

\* a file arrives in, or is replaced in, INPUT_DIR between two runs; what
\* was kept of a run that died is dropped
Deliver ==
    /\ ~Running
    /\ delivered < MaxDeliveries
    /\ \E name \in FileNames, content \in Contents :
          /\ name \in DOMAIN input => input[name] # content
          /\ input' = Put(input, name, content)
          /\ retry' = IF name \in failed /\ Missing(content.columns) = <<>>
                      THEN (retry \cap failed) \cup {name}
                      ELSE (retry \cap failed) \ {name}
    /\ delivered' = delivered + 1
    /\ snap' = NoSnap
    /\ Forget
    /\ rewritten' = {}
    /\ UNCHANGED <<archive, output, reports, table, now, exit, torn, failed>>

\* lines 11-22: the script is started
StartRun ==
    /\ ~Running
    /\ now < MaxRuns
    /\ now' = now + 1
    /\ exit' = "running"
    /\ pc' = "track"
    /\ processed_files' = NoFiles
    /\ new_files' = <<>>
    /\ i' = 0
    /\ validation_report' = <<>>
    /\ pending' = {}
    /\ torn' = IF torn = "healed" THEN "no" ELSE torn
    /\ failed' = {}
    /\ retry' = retry \cap failed
    /\ rewritten' = {}
    /\ UNCHANGED <<disk, delivered, snap>>

\* lines 29-32: Processed-Set Tracker
Track ==
    /\ Running /\ pc = "track"
    /\ processed_files' =
          [f \in DOMAIN archive \cap ArchiveMatching |->
              get_file_hash(archive[f])]
    /\ pc' = "discover"
    /\ UNCHANGED <<disk, now, exit, new_files, i, validation_report, pending,
                   delivered, history, snap, torn>>

\* lines 35-42: File Discovery
Discover ==
    /\ Running /\ pc = "discover"
    /\ new_files' \in Orderings(Candidates(input, processed_files))
    /\ pc' = "check"
    /\ UNCHANGED <<disk, now, exit, processed_files, i, validation_report,
                   pending, delivered, history, snap, torn>>

\* what a run that ended normally leaves for the next one to be compared with
Completed ==
    [valid |-> TRUE, runs |-> snap.runs + 1, archive |-> archive,
     table |-> table]

\* lines 44-46: nothing to do, exit()
NoNewFiles ==
    /\ Running /\ pc = "check"
    /\ NothingNew(new_files)
    /\ exit' = "noop"
    /\ Forget
    /\ snap' = Completed
    /\ UNCHANGED <<disk, now, delivered, history, torn>>

\* lines 49-50: the loop is entered
BeginLoop ==
    /\ Running /\ pc = "check"
    /\ ~NothingNew(new_files)
    /\ validation_report' = <<>>
    /\ i' = 1
    /\ pc' = IF Len(new_files) >= 1 THEN "validate" ELSE "report"
    /\ UNCHANGED <<disk, now, exit, processed_files, new_files, pending,
                   delivered, history, snap, torn>>

\* the for statement of line 50 takes the next path, or the loop ends
NextFile ==
    IF i < Len(new_files)
    THEN i' = i + 1 /\ pc' = "validate"
    ELSE i' = i + 1 /\ pc' = "report"

\* break instead: the loop is left at the first FAILED file
Break == i' = i + 1 /\ pc' = "report"

\* line 66
Continue == NextFile

\* lines 51-66: read the file, validate it, record the outcome
Validate ==
    /\ Running /\ pc = "validate"
    /\ LET file_path == new_files[i]
           df == input[file_path]
       IN  IF ~df.parsable
           THEN Raise /\ UNCHANGED <<disk, now, delivered, history, torn>>
           ELSE /\ validation_report' =
                      Append(validation_report, Outcome(StemOf[file_path], df))
                /\ IF Missing(df.columns) # <<>>
                   THEN Continue /\ failed' = failed \cup {file_path}
                   ELSE i' = i /\ pc' = "harmonize" /\ failed' = failed
                /\ UNCHANGED <<disk, now, exit, processed_files, new_files,
                               pending, delivered, retry, rewritten, snap, torn>>

\* lines 68-82: derive the columns and write the CDM file
SaveCdm ==
    /\ Running /\ pc = "harmonize"
    /\ LET file_path == new_files[i]
           filename == StemOf[file_path]
           parts == PartsOf[file_path]
       IN  IF Len(parts) < 3
           THEN Raise /\ UNCHANGED <<disk, now, delivered, history, torn>>
           ELSE /\ output' = Saved(output, CdmName(filename),
                                   Harmonized(input[file_path], parts, now))
                /\ rewritten' = IF CdmName(filename) \in DOMAIN output
                                 THEN rewritten \cup {CdmName(filename)}
                                 ELSE rewritten
                /\ pc' = "archive"
                /\ UNCHANGED <<input, archive, reports, table, now, exit,
                               locals, delivered, failed, retry, snap, torn>>

\* line 85: os.replace moves the file, replacing a same-named target
Archive ==
    /\ Running /\ pc = "archive"
    /\ LET file_path == new_files[i]
       IN  /\ archive' = Put(archive, file_path, input[file_path])
           /\ input' = Removed(input, file_path)
    /\ NextFile
    /\ UNCHANGED <<output, reports, table, now, exit, processed_files,
                   new_files, validation_report, pending, delivered, history,
                   snap, torn>>

\* lines 88-91: the report file, named by the time it is written
Report ==
    /\ Running /\ pc = "report"
    /\ reports' = Put(reports, now, validation_report)
    /\ pc' = "drop"
    /\ UNCHANGED <<input, archive, output, table, now, exit, locals,
                   delivered, history, snap, torn>>

\* lines 95-99: DROP TABLE IF EXISTS
DropTable ==
    /\ Running /\ pc = "drop"
    /\ table' = NoTable
    /\ pc' = "create"
    /\ UNCHANGED <<input, archive, output, reports, now, exit, locals,
                   delivered, history, snap, torn>>

\* lines 100-121: CREATE TABLE (an error if the table exists), then the
\* glob of the CDM files
CreateTable ==
    /\ Running /\ pc = "create"
    /\ IF table.exists
       THEN Raise /\ torn' = "torn" /\ UNCHANGED <<disk, now, delivered, history>>
       ELSE /\ table' = [exists |-> TRUE, rows |-> EmptyBag]
            /\ pending' = CdmFiles(output)
            /\ pc' = "load"
            /\ UNCHANGED <<input, archive, output, reports, now, exit,
                           processed_files, new_files, i, validation_report,
                           delivered, history, snap, torn>>

\* lines 121-124: one CDM file is read and appended (to_sql commits it)
LoadFile ==
    /\ Running /\ pc = "load"
    /\ \E file \in pending :
          IF Insertable(output[file])
          THEN /\ table' = Appended(table, output[file])
               /\ pending' = pending \ {file}
               /\ UNCHANGED <<input, archive, output, reports, now, pc, exit,
                              processed_files, new_files, i, validation_report,
                              delivered, history, snap, torn>>
          ELSE Raise /\ torn' = "torn" /\ UNCHANGED <<disk, now, delivered, history>>

\* lines 126-131: commit, close, the script ends
Finish ==
    /\ Running /\ pc = "load"
    /\ pending = {}
    /\ exit' = "done"
    /\ Forget
    /\ snap' = Completed
    /\ torn' = IF torn = "torn" THEN "healed" ELSE "no"
    /\ UNCHANGED <<disk, now, delivered, history>>

\* the process is terminated from outside, wherever it stands
Kill ==
    /\ Running
    /\ exit' = "killed"
    /\ snap' = NoSnap
    /\ torn' = IF MidLoad THEN "torn" ELSE torn
    /\ UNCHANGED <<disk, now, pc, locals, delivered, history>>

Next ==
    \/ Deliver
    \/ StartRun
    \/ Track
    \/ Discover
    \/ NoNewFiles
    \/ BeginLoop
    \/ Validate
    \/ SaveCdm
    \/ Archive
    \/ Report
    \/ DropTable
    \/ CreateTable
    \/ LoadFile
    \/ Finish
    \/ Kill

Spec == Init /\ [][Next]_vars

\* the readable contents that lack a required column
Broken == {c \in Contents : c.parsable /\ Missing(c.columns) # <<>>}

\* the script is installed while a file that lacks a required column waits
\* in INPUT_DIR
InitRetry ==
    /\ \E name \in Matching, content \in Broken :
          input = Put(NoFiles, name, content)
    /\ archive = NoFiles
    /\ output = NoFiles
    /\ reports = NoFiles
    /\ table = NoTable
    /\ now = 0
    /\ pc = "idle"
    /\ exit = "none"
    /\ processed_files = NoFiles
    /\ new_files = <<>>
    /\ i = 0
    /\ validation_report = <<>>
    /\ pending = {}
    /\ delivered = 0
    /\ snap = NoSnap
    /\ torn = "no"
    /\ failed = {}
    /\ retry = {}
    /\ rewritten = {}

SpecRetry == InitRetry /\ [][Next]_vars

-----------------------------------------------------------------------------
(* Claims *)

\* CDM_<stem>.csv, spelled out
ExpectedCdmOf == [f \in FileNames |-> <<"C", "D", "M", "_">> \o StemOf[f] \o DotCsv]

ExpectedCdm(f) == ExpectedCdmOf[f]

TokensOf == [f \in FileNames |-> Split(f, "_")]

\* new_files, i and validation_report hold this run's values
InRun == pc \notin {"idle", "track", "discover"}

\* the loop of lines 50-85 has ended
PastLoop == pc \in {"report", "drop", "create", "load"}

Discovered == Range(new_files)

\* the content the run read from a discovered file, wherever the file is now
ContentOf(f) == IF f \in DOMAIN input THEN input[f] ELSE archive[f]

\* C1 (skip-by-name): once File Discovery has run, no file of the input
\* location whose name is also a name in the archive location is among the
\* selected files, whatever its content or digest is; such a file stays in
\* both locations.
SkipByName ==
    InRun => \A f \in DOMAIN input \cap DOMAIN archive : f \notin Discovered

\* File Discovery has skipped a file whose content and digest differ from
\* those of the archived file of the same name
SkipByNameWitness ==
    /\ Running /\ pc = "check"
    /\ \E f \in DOMAIN input \cap DOMAIN archive :
          /\ f \in Matching
          /\ input[f] # archive[f]
          /\ get_file_hash(input[f]) # processed_files[f]
          /\ f \notin Discovered

\* C2 (validation isolation), as claimed: after the loop, every discovered
\* file that lacks a required column has outcome FAILED, has no CDM_<stem>.csv
\* in the canonical-output location, is in the input location and is not in
\* the archive.
ValidationIsolation ==
    (Running /\ PastLoop) =>
        \A k \in DOMAIN new_files :
            LET f == new_files[k]
            IN  Missing(ContentOf(f).columns) # <<>> =>
                    /\ validation_report[k].Status = "FAILED"
                    /\ ExpectedCdm(f) \notin DOMAIN output
                    /\ f \in DOMAIN input
                    /\ f \notin DOMAIN archive

\* C3 (idempotence): when a run ends normally, the run before it ended
\* normally too and nothing was delivered in between, the archive is the one
\* the earlier run left (no file was archived) and the Store Table is the one
\* the earlier run left, Load_Timestamp values included.
Idempotence ==
    [][(snap.valid /\ snap'.valid /\ snap'.runs = snap.runs + 1) =>
           (archive' = snap.archive /\ table' = snap.table)]_vars

\* a second run in a row has ended after reloading a non-empty table, with
\* a file still in the input location
IdempotenceWitness ==
    /\ exit = "done"
    /\ snap.valid /\ snap.runs = 2
    /\ table.rows # EmptyBag
    /\ input # NoFiles

\* C4 (no-op run): a run in which File Discovery selects nothing changes no
\* directory and not the Store Table at any step, and from the test of
\* line 44 it only ends.
NoOpRun ==
    [][(Running /\ (pc \in {"track", "discover"} \/ new_files = <<>>)) =>
           /\ UNCHANGED disk
           /\ pc = "check" => exit' \in {"noop", "killed"}]_vars

\* a no-op run has ended with files in the input location and a loaded table
NoOpRunWitness ==
    /\ exit = "noop"
    /\ input # NoFiles
    /\ table.exists /\ table.rows # EmptyBag
    /\ now \notin DOMAIN reports

RECURSIVE AllRows(_, _)
AllRows(dir, names) ==
    IF names = {} THEN EmptyBag
    ELSE LET f == CHOOSE g \in names : TRUE
         IN  RowsToBag(dir[f].rows) (+) AllRows(dir, names \ {f})

RECURSIVE RowCount(_, _)
RowCount(dir, names) ==
    IF names = {} THEN 0
    ELSE LET f == CHOOSE g \in names : TRUE
         IN  Len(dir[f].rows) + RowCount(dir, names \ {f})

\* C5 (load completeness): when the Loader has completed, the Store Table
\* holds the rows of every file of the canonical-output location, each file's
\* rows once, and nothing else; its row count is the sum of the files' row
\* counts.
LoadComplete ==
    exit = "done" =>
        /\ table.exists
        /\ table.rows = AllRows(output, DOMAIN output)
        /\ BagCardinality(table.rows) = RowCount(output, DOMAIN output)

\* a load has completed over artifacts of this run and of an earlier run
LoadCompleteWitness ==
    /\ exit = "done"
    /\ \E f, g \in DOMAIN output :
          /\ output[f].rows[1].Load_Timestamp < now
          /\ output[g].rows[1].Load_Timestamp = now
    /\ BagCardinality(table.rows) >= 2

\* C6 (report completeness): a run that selected files and has passed line 90
\* has written the report of its own timestamp, holding one outcome per
\* selected file in processing order, FAILED or PASSED as the file lacks a
\* required column or not; before line 90 the run has written no report.
ReportComplete ==
    /\ (Running /\ pc \in {"drop", "create", "load"}) =>
          /\ now \in DOMAIN reports
          /\ Len(reports[now]) = Len(new_files)
          /\ \A k \in DOMAIN new_files :
                LET f == new_files[k]
                    df == ContentOf(f)
                IN  /\ reports[now][k].File = StemOf[f]
                    /\ reports[now][k].Rows = Len(df.rows)
                    /\ reports[now][k].Status =
                          IF \E c \in Range(required) : c \notin df.columns
                          THEN "FAILED" ELSE "PASSED"
    /\ (Running /\ pc \notin {"drop", "create", "load"}) =>
          now \notin DOMAIN reports
    /\ exit = "done" => (now \in DOMAIN reports /\ reports[now] # <<>>)
    /\ DOMAIN reports \subseteq 1..now

\* the report holds a FAILED file followed by a PASSED one
ReportCompleteWitness ==
    /\ Running /\ pc = "drop"
    /\ Len(new_files) = 2
    /\ reports[now][1].Status = "FAILED"
    /\ reports[now][2].Status = "PASSED"


Digits == {"0", "1", "2", "3", "4", "5", "6", "7", "8", "9"}

\* a six-digit token
IsPeriod(token) == Len(token) = 6 /\ Range(token) \subseteq Digits

\* the six-digit tokens of a file name, in order
PeriodTokensOf == [f \in FileNames |-> SelectSeq(TokensOf[f], IsPeriod)]

PeriodTokens(f) == PeriodTokensOf[f]

\* C7 (harmonization correctness), as claimed: the artifact just written for a
\* PASSED file has in every row Country and Source cut from the first token of
\* the file name, Period_Start and Period_End equal to its second and third
\* token, Unique_Store_ID = str(Store_ID) + "_" + Banner ("N/A" without a
\* Banner column), and Period_Start and Period_End are the two six-digit
\* period tokens of the file name.
HarmonizationCorrect ==
    (Running /\ pc = "archive") =>
        LET f == new_files[i]
            tokens == TokensOf[f]
            src == input[f]
            cdm == output[ExpectedCdm(f)]
        IN  /\ Len(cdm.rows) = Len(src.rows)
            /\ \A k \in DOMAIN cdm.rows :
                  LET row == cdm.rows[k]
                  IN  /\ row.Country = Slice(tokens[1], 0, 2)
                      /\ row.Source = Slice(tokens[1], 2, 5)
                      /\ row.Period_Start = tokens[2]
                      /\ row.Period_End = tokens[3]
                      /\ row.Unique_Store_ID =
                            ToString(src.rows[k].Store_ID) \o "_" \o
                            (IF "Banner" \in src.columns
                             THEN src.rows[k].Banner ELSE "N/A")
                      /\ Len(PeriodTokens(f)) = 2
                      /\ row.Period_Start = PeriodTokens(f)[1]
                      /\ row.Period_End = PeriodTokens(f)[2]

\* C8 (write-before-archive): in every state, also after a kill, every file
\* of the archive passed validation and has its CDM_<stem>.csv in the
\* canonical-output location; a run killed between the write and the move has
\* left the source in the input location, not in the archive, where the
\* pattern of File Discovery matches it.
WriteBeforeArchive ==
    /\ \A f \in DOMAIN archive :
          /\ ExpectedCdm(f) \in DOMAIN output
          /\ Range(required) \subseteq archive[f].columns
    /\ (exit = "killed" /\ pc = "archive") =>
          LET f == new_files[i]
          IN  /\ ExpectedCdm(f) \in DOMAIN output
              /\ f \in DOMAIN input
              /\ f \notin DOMAIN archive
              /\ f \in Matching

\* a run was killed between the write and the move of its second file, the
\* first being archived
WriteBeforeArchiveWitness ==
    /\ exit = "killed" /\ pc = "archive"
    /\ i = 2
    /\ new_files[1] \in DOMAIN archive
    /\ new_files[2] \in DOMAIN input

\* the Store Table holds exactly the rows of the canonical-output location
TableIsFull ==
    /\ table.exists
    /\ table.rows = AllRows(output, DOMAIN output)

\* C9 (self-healing load), as claimed: once a load was interrupted after the
\* drop, a later run that ends normally leaves the Store Table holding
\* exactly the rows of all canonical-output artifacts.
RerunHeals ==
    (torn # "no" /\ exit \in {"noop", "done"}) => TableIsFull

\* C9, amended: the table is healed by the next run whose Loader completes,
\* and then holds exactly the rows of all canonical-output artifacts; a rerun
\* in which File Discovery selects nothing ends at line 46 and leaves the
\* table as the interruption left it.
LoaderHeals ==
    [][/\ torn' = "healed" =>
              (table'.exists /\ table'.rows = AllRows(output', DOMAIN output'))
       /\ (torn = "torn" /\ Running /\ exit' = "noop") =>
              (table' = table /\ torn' = "torn")]_vars

\* a completed load has healed a torn table from an artifact of an earlier run
LoaderHealsWitness ==
    /\ torn = "healed"
    /\ \E f \in DOMAIN output : output[f].rows[1].Load_Timestamp < now
    /\ table.rows # EmptyBag

\* this run has written the artifact of its k-th file: the file PASSED and
\* line 81 was reached for it
Touched(k) ==
    /\ k <= Len(validation_report)
    /\ validation_report[k].Status = "PASSED"
    /\ (k < i \/ pc = "archive")

WrittenNow(f) ==
    /\ ExpectedCdm(f) \in DOMAIN output
    /\ \A r \in DOMAIN output[ExpectedCdm(f)].rows :
          output[ExpectedCdm(f)].rows[r].Load_Timestamp = now

InFlight(k) ==
    /\ Touched(k) /\ WrittenNow(new_files[k])
    /\ new_files[k] \in DOMAIN input /\ new_files[k] \notin DOMAIN archive

FullyProcessed(k) ==
    /\ Touched(k) /\ WrittenNow(new_files[k])
    /\ new_files[k] \in DOMAIN archive /\ new_files[k] \notin DOMAIN input

Untouched(k) ==
    /\ ~Touched(k)
    /\ new_files[k] \in DOMAIN input /\ new_files[k] \notin DOMAIN archive

\* C10 (bounded blast radius): at every point of the per-file loop, and so
\* wherever the run is killed in it, at most one selected file is in flight
\* (this run wrote its artifact from it and has not moved it); every other
\* selected file is fully processed or untouched, and each selected file is
\* in exactly one of the input and archive locations.
BlastRadius ==
    (exit \in {"running", "killed"} /\ pc \in {"validate", "harmonize", "archive"}) =>
        /\ \A k \in DOMAIN new_files :
              InFlight(k) \/ FullyProcessed(k) \/ Untouched(k)
        /\ Cardinality({k \in DOMAIN new_files : InFlight(k)}) <= 1

\* a run was killed with one file in flight, one fully processed
BlastRadiusWitness ==
    /\ exit = "killed" /\ pc = "archive"
    /\ \E j, k \in DOMAIN new_files : FullyProcessed(j) /\ InFlight(k)

\* C11 (append-only archive): no step removes a name from the archive
\* location or changes the content stored under an archived name; the archive
\* changes only by the move of line 85, which adds the current file under a
\* name the archive does not hold yet.
AppendOnlyArchive ==
    [][/\ DOMAIN archive \subseteq DOMAIN archive'
       /\ \A f \in DOMAIN archive : archive'[f] = archive[f]
       /\ archive' # archive =>
             /\ Running /\ pc = "archive"
             /\ new_files[i] \notin DOMAIN archive
             /\ archive' = Put(archive, new_files[i], input[new_files[i]])]_vars

\* a second run has moved a file into the archive next to a file an earlier
\* run had archived, which is still there with the content it was read with
ArchiveGrew ==
    /\ Running /\ now = 2 /\ pc \in {"validate", "report"}
    /\ \E f, g \in DOMAIN archive :
          /\ f # g
          /\ ExpectedCdm(f) # ExpectedCdm(g)
          /\ output[ExpectedCdm(f)].rows[1].Load_Timestamp = 1
          /\ output[ExpectedCdm(g)].rows[1].Load_Timestamp = 2
          /\ Len(output[ExpectedCdm(f)].rows) = Len(archive[f].rows)

\* the rows the Store Table holds for an archived file harmonized in this run
RowsOf(f) == RowsToBag(Harmonized(archive[f], PartsOf[f], now).rows)

\* C12 (retry after correction), as claimed: a file that FAILED in the run
\* before and was replaced in place by a file with all required columns is
\* selected by File Discovery in this run and PASSES; when the run has ended
\* normally the file is in the archive and not in the input location, its
\* CDM_<stem>.csv exists and its rows are in the Store Table.
RetryAfterCorrection ==
    /\ (Running /\ InRun) =>
          /\ retry \subseteq Discovered
          /\ \A k \in DOMAIN validation_report :
                new_files[k] \in retry => validation_report[k].Status = "PASSED"
    /\ (exit = "done" /\ snap.valid) =>
          \A f \in retry :
              /\ f \in DOMAIN archive
              /\ f \notin DOMAIN input
              /\ ExpectedCdm(f) \in DOMAIN output
              /\ RowsOf(f) \sqsubseteq table.rows

\* the pieces file names are put together from: a prefix, a period, six
\* characters holding an underscore, an extension inside the name, nothing
NamePieces ==
    {<<"A", "T">>,
     <<"2", "0", "2", "4", "0", "1">>,
     <<"2", "0", "2", "4", "_", "1">>,
     DotCsv,
     <<>>}

RECURSIVE JoinUnderscore(_)
JoinUnderscore(pieces) ==
    IF Len(pieces) = 1 THEN Head(pieces)
    ELSE Head(pieces) \o <<"_">> \o JoinUnderscore(Tail(pieces))

\* every .csv name of up to MaxTokens pieces joined by '_'
NameFamily ==
    {JoinUnderscore(pieces) \o DotCsv :
        pieces \in UNION {[1..n -> NamePieces] : n \in 1..MaxTokens}}

\* of the family, the names the discovery pattern matches
FamilyMatching == {n \in NameFamily : GlobMatch(pattern, n)}

\* each of them has a stem of at least three segments
FamilySplits == \A n \in FamilyMatching : Len(Split(Stem(n), "_")) >= 3

\* C13 (three tokens): every selected file has a stem that splits on '_' into
\* at least three segments, so lines 70-77 find parts[0], parts[1] and
\* parts[2]; no run ends by an error in the Harmonizer; and the same holds of
\* every name of the family that the discovery pattern matches.
ThreeTokens ==
    /\ (Running /\ InRun) => \A f \in Discovered : Len(PartsOf[f]) >= 3
    /\ exit = "error" => pc # "harmonize"
    /\ FamilySplits

\* the Harmonizer has read the three tokens of a selected file while a .csv
\* file with one underscore waits, unselected, in the input location
ThreeTokensWitness ==
    /\ Running /\ pc = "archive"
    /\ NameShort \in DOMAIN input
    /\ NameShort \notin Discovered
    /\ Cardinality(FamilyMatching) >= 10
    /\ Cardinality(NameFamily \ FamilyMatching) >= 10

\* the readable contents with every required column
Passing == {c \in Contents : c.parsable /\ Missing(c.columns) = <<>>}

\* what one pass of lines 69-81 over the file f with content c writes in
\* run t
WriteOf ==
    [f \in Matching, c \in Passing, t \in 1..(MaxRuns + 1) |->
        Harmonized(c, PartsOf[f], t)]

\* the artifact is what one pass over one file of its stem has written
OneWrite(a) ==
    \E f \in Matching, c \in Passing, t \in 1..now :
        /\ a = ExpectedCdm(f)
        /\ output[a] = WriteOf[f, c, t]

\* how often the Store Table holds the k-th row of the file f of the
\* directory dir, as harmonized by any of the runs 1..t
LoadedRowOf ==
    [f \in Matching, c \in Contents, t \in 1..(MaxRuns + 1) |->
        [k \in DOMAIN c.rows |->
            TableRow(HarmonizedRow(c.rows[k], c.columns, PartsOf[f], t))]]

RECURSIVE CopiesOverRuns(_, _, _, _)
CopiesOverRuns(dir, f, k, t) ==
    IF t = 0 THEN 0
    ELSE CopiesIn(LoadedRowOf[f, dir[f], t][k], table.rows)
         + CopiesOverRuns(dir, f, k, t - 1)

AtMostOnce(dir) ==
    \A f \in DOMAIN dir \cap Matching : \A k \in DOMAIN dir[f].rows :
        CopiesOverRuns(dir, f, k, now) <= 1

\* C14 (one artifact per source): in every state, also after a run was
\* interrupted between line 81 and line 85 and the file was processed again,
\* every file of the canonical-output location is the CDM_<stem>.csv of a
\* source file name and holds what one processing of one file wrote, never
\* the rows of two; and when the Loader has completed, the Store Table holds
\* each row of each source file, archived or still in the input location, at
\* most once, whatever run stamped it.
OneArtifactPerSource ==
    /\ \A a \in DOMAIN output : OneWrite(a)
    /\ exit = "done" => (AtMostOnce(archive) /\ AtMostOnce(input))

\* a run was interrupted between the write and the move, the next run has
\* written the file's artifact over the one left behind and has completed
\* its load
OneArtifactPerSourceWitness ==
    /\ exit = "done" /\ now = 2
    /\ reports = Put(NoFiles, 2, reports[2])
    /\ delivered = 1
    /\ \E f \in DOMAIN archive :
          /\ ExpectedCdm(f) \in rewritten
          /\ output[ExpectedCdm(f)] = Harmonized(archive[f], PartsOf[f], 2)
          /\ CopiesOverRuns(archive, f, 1, now) = 1

====
